---------------------------- MODULE Spec2Model ----------------------------
(***************************************************************************)
(* A model of src/src/main.rs of the isomorphs word colouring tool.        *)
(*                                                                         *)
(* Characters are Unicode scalar values (integers), strings are sequences  *)
(* of characters.  Three specifications share the definitions:             *)
(*   Spec       main(): split, colour() (signatures, first pass, second    *)
(*              pass), rendering;                                          *)
(*   SpecSig    IsomorphSignature::from_isomorphic, one loop iteration per *)
(*              step, on a pair of words, with its u8 index counter;       *)
(*   SpecTable  the default colour table built by DiscordColourIterator    *)
(*              and ColourKey::reify on it.                                *)
(***************************************************************************)
EXTENDS Integers, Sequences, FiniteSets, TLC

VARIABLES
    pc,                \* position of main(): "start", "count", "assign", "render", "done", "panic"
    buf,               \* main: the input buffer read from stdin
    isomorphic_words,  \* colour: Vec<(response, IsomorphSignature)>
    counters,          \* colour: HashMap<&IsomorphSignature, bool>
    colour_map,        \* colour: HashMap<IsomorphSignature, ColourKey>
    colour,            \* colour: the local key counter (ColourKey.idx)
    coloured,          \* colour: the Vec<ColouredObject> collected so far
    i,                 \* number of words the running pass has consumed
    pieces,            \* main: the strings produced by the two map() calls
    out,               \* main: what println! writes to stdout
    sig_pc,            \* from_isomorphic: "loop", "done", "panic", "idle"
    overflow_checks,   \* build profile: TRUE when integer overflow panics
    sig_words,         \* from_isomorphic: the words of the two calls
    sig_call,          \* from_isomorphic: which call is running (1 or 2)
    sig_pos,           \* from_isomorphic: characters consumed by the for loop
    sig_st,            \* from_isomorphic: its locals (signature, char_map, idx)
    sig_res,           \* from_isomorphic: the values returned so far
    tab_pc,            \* table: "collect", "reify", "idle"
    it_index,          \* DiscordColourIterator.index
    table,             \* the Vec collected from the iterator
    key,               \* the next ColourKey.idx to reify
    code               \* DiscordColour.value of the last reified key

main_vars == <<pc, buf, isomorphic_words, counters, colour_map, colour,
               coloured, i, pieces, out>>
sig_vars == <<sig_pc, overflow_checks, sig_words, sig_call, sig_pos, sig_st, sig_res>>
tab_vars == <<tab_pc, it_index, table, key, code>>
vars == <<main_vars, sig_vars, tab_vars>>

---------------------------------------------------------------------------
(* Bounds of the model.                                                    *)

\* longest input buffer of the exhaustive family
MaxBufLen == 5
\* most words of an input built from SampleWords
MaxWords == 5
\* most qualifying classes of the many-classes inputs
MaxClasses == 9
\* longest word of the exhaustive family of from_isomorphic
MaxWordLen == 3
\* distinct characters beyond u8::MAX + 1 in the long words
MaxExtra == 1
\* keys reified against the table beyond its length
MaxKeyExtra == 20

---------------------------------------------------------------------------
(* Characters and strings.                                                 *)

Space == 32
Newline == 10
Esc == 27
LeftBracket == 91
LetterM == 109
DigitZero == 48

Range(s) == {s[k] : k \in DOMAIN s}

SeqsUpTo(S, n) == UNION {[1..m -> S] : m \in 0..n}

\* u8::to_string: decimal digits, most significant first
RECURSIVE to_string(_)
to_string(n) ==
    IF n < 10 THEN <<DigitZero + n>>
    ELSE Append(to_string(n \div 10), DigitZero + (n % 10))

\* the position of the first space of s, or 0 when it has none
FirstSpace(s) ==
    IF \E p \in 1..Len(s) : s[p] = Space
    THEN CHOOSE p \in 1..Len(s) : s[p] = Space /\ \A q \in 1..(p - 1) : s[q] # Space
    ELSE 0

\* str::split(' '): the pieces between single spaces, empty pieces kept;
\* each next() of the iterator yields the text up to the next separator
RECURSIVE Split(_)
Split(s) ==
    IF FirstSpace(s) = 0 THEN <<s>>
    ELSE <<SubSeq(s, 1, FirstSpace(s) - 1)>> \o Split(SubSeq(s, FirstSpace(s) + 1, Len(s)))

RESET == <<Esc, LeftBracket, DigitZero, LetterM>>

---------------------------------------------------------------------------
(* IsomorphSignature::from_isomorphic.                                     *)

U8Max == 255

\* the locals of from_isomorphic before the loop
SigStart == [signature |-> <<>>, char_map |-> <<>>, idx |-> 0, panicked |-> FALSE]

\* idx += 1 on a u8: panics when overflow checks are compiled in, wraps otherwise
IncrIdx(st, checks) ==
    IF st.idx + 1 > U8Max
    THEN IF checks THEN [st EXCEPT !.panicked = TRUE]
                   ELSE [st EXCEPT !.idx = (@ + 1) % (U8Max + 1)]
    ELSE [st EXCEPT !.idx = @ + 1]

\* one iteration of the for loop over the word's characters
SigLoopBody(st, ch, checks) ==
    IF ch \in DOMAIN st.char_map
    THEN [st EXCEPT !.signature = Append(@, st.char_map[ch])]
    ELSE IncrIdx([st EXCEPT !.char_map = (ch :> st.idx) @@ @,
                            !.signature = Append(@, st.idx)], checks)

\* good: the signature has fewer distinct values than positions
GoodOf(signature) == Cardinality(Range(signature)) # Len(signature)

\* the value from_isomorphic returns from its final locals
SigReturn(st) ==
    [ok |-> ~st.panicked,
     sig |-> IF st.panicked THEN [good |-> FALSE, signature |-> <<>>]
             ELSE [good |-> GoodOf(st.signature), signature |-> st.signature]]

\* the loop over the first k characters of the word
SigLoopGuarded(st, ch, checks) ==
    IF st.panicked THEN st ELSE SigLoopBody(st, ch, checks)

RECURSIVE SigLoopUpTo(_, _, _)
SigLoopUpTo(word, k, checks) ==
    IF k = 0 THEN SigStart
    ELSE SigLoopGuarded(SigLoopUpTo(word, k - 1, checks), word[k], checks)

\* the whole call; checks is the build's overflow-check setting
from_isomorphic(word, checks) == SigReturn(SigLoopUpTo(word, Len(word), checks))

---------------------------------------------------------------------------
(* Colours: ColourKey, DiscordColour, DiscordColourIterator.               *)

None == <<>>
Some(x) == <<x>>

\* the arguments of DiscordColourIterator::new in main
TableTotal == 1000
DiscordPeriod == 8
DiscordBase == 30

\* DiscordColourIterator::next with self.index = index < total: the value
\* of the item (index is incremented before the remainder is taken)
DiscordNextValueSeven(index) == ((index + 1) % (DiscordPeriod - 1)) + DiscordBase

DiscordNextValue(index) == ((index + 1) % DiscordPeriod) + DiscordBase

\* DiscordColourIterator::new(total).collect::<Vec<_>>()
CollectTable(total) == [k \in 1..total |-> DiscordNextValue(k - 1)]

\* the table main builds
DefaultTable == CollectTable(TableTotal)

\* ColourKey::next
ColourKeyNextSkip(idx) == idx + 2

ColourKeyNext(idx) == idx + 1

\* ColourKey::reify: table[self.idx % table.len()] (a Vec is 0-based)
ReifyShort(idx, tbl) == tbl[(idx % (Len(tbl) - 1)) + 1]

Reify(idx, tbl) == tbl[(idx % Len(tbl)) + 1]

\* DiscordColour::ansify
DiscordAnsify(value) == <<Esc, LeftBracket>> \o to_string(value) \o <<LetterM>>

\* ColouredObject::ansify
AnsifyNoValue(obj, tbl) ==
    IF obj.colour # None
    THEN DiscordAnsify(Reify(obj.colour[1], tbl))
    ELSE obj.value

Ansify(obj, tbl) ==
    IF obj.colour # None
    THEN DiscordAnsify(Reify(obj.colour[1], tbl)) \o obj.value
    ELSE obj.value

---------------------------------------------------------------------------
(* colour().                                                               *)

\* the closure of the first pass (for_each) applied to signature e
CounterUpdateEager(cnt, e) ==
    IF e \in DOMAIN cnt THEN [cnt EXCEPT ![e] = e.good]
    ELSE (e :> e.good) @@ cnt

CounterUpdate(cnt, e) ==
    IF e \in DOMAIN cnt THEN [cnt EXCEPT ![e] = e.good]
    ELSE (e :> FALSE) @@ cnt

\* the closure of the second pass (map) applied to (s, e): the new
\* colour_map and key counter and the ColouredObject it yields
AssignBodyAlways(cmap, col, cnt, s, e) ==
    IF ~cnt[e]
    THEN [colour_map |-> cmap, colour |-> ColourKeyNext(col),
          obj |-> [value |-> s, colour |-> None]]
    ELSE IF e \in DOMAIN cmap
    THEN [colour_map |-> cmap, colour |-> col,
          obj |-> [value |-> s, colour |-> Some(cmap[e])]]
    ELSE [colour_map |-> (e :> col) @@ cmap, colour |-> ColourKeyNext(col),
          obj |-> [value |-> s, colour |-> Some(col)]]

AssignBody(cmap, col, cnt, s, e) ==
    IF ~cnt[e]
    THEN [colour_map |-> cmap, colour |-> col,
          obj |-> [value |-> s, colour |-> None]]
    ELSE IF e \in DOMAIN cmap
    THEN [colour_map |-> cmap, colour |-> col,
          obj |-> [value |-> s, colour |-> Some(cmap[e])]]
    ELSE [colour_map |-> (e :> col) @@ cmap, colour |-> ColourKeyNext(col),
          obj |-> [value |-> s, colour |-> Some(col)]]

---------------------------------------------------------------------------
(* main().                                                                 *)

\* .map(|e| e.ansify(&table)).map(|e| e + RESET)
RenderPiece(obj, tbl) == Ansify(obj, tbl) \o RESET

\* .fold("".to_string(), |acc, e| acc + &e + " ")
RECURSIVE FoldPieces(_)
FoldPieces(ps) ==
    IF ps = <<>> THEN <<>>
    ELSE FoldPieces(SubSeq(ps, 1, Len(ps) - 1)) \o ps[Len(ps)] \o <<Space>>

\* println!("{coloured}")
PrintLn(line) == Append(line, Newline)

---------------------------------------------------------------------------
(* Inputs.                                                                 *)

Alphabet == {97, 98, Space, Newline}
SigAlphabet == {97, 98, 99}
SampleWords == {<<>>, <<97, 97>>, <<98, 98>>, <<97, 98>>, <<97, 97, 98>>}

\* the words joined by single spaces
RECURSIVE Join(_)
Join(ws) ==
    IF ws = <<>> THEN <<>>
    ELSE IF Len(ws) = 1 THEN ws[1]
    ELSE Join(SubSeq(ws, 1, Len(ws) - 1)) \o <<Space>> \o ws[Len(ws)]

\* every buffer over Alphabet up to MaxBufLen characters
BufsExhaustive == SeqsUpTo(Alphabet, MaxBufLen)

\* up to MaxWords sample words; the short ones also with a final line break
BufsSampled ==
    {Join(ws) : ws \in SeqsUpTo(SampleWords, MaxWords)}
        \cup {Join(ws) \o <<Newline>> : ws \in SeqsUpTo(SampleWords, 2)}

\* n classes of repeated letters ("aa", "aaa", ...), each occurring twice
ManyClasses(n) ==
    Join([k \in 1..(2 * n) |-> [j \in 1..(((k - 1) % n) + 2) |-> 97]])

BufsManyClasses == {ManyClasses(n) : n \in 1..MaxClasses}

Bufs == BufsExhaustive \cup BufsSampled \cup BufsManyClasses

\* n pairwise distinct characters
Distinct(n) == [k \in 1..n |-> U8Max + k]

LongWords ==
    {Distinct(n) : n \in U8Max..(U8Max + 1 + MaxExtra)}
        \cup {Append(Distinct(U8Max + 1), Distinct(1)[1])}

SmallWords == SeqsUpTo(SigAlphabet, MaxWordLen)

SigPairs == (SmallWords \X SmallWords) \cup (LongWords \X LongWords)

---------------------------------------------------------------------------
(* Specification of main().                                                *)

MainIdle ==
    /\ pc = "idle" /\ buf = <<>> /\ isomorphic_words = <<>> /\ counters = <<>>
    /\ colour_map = <<>> /\ colour = 0 /\ coloured = <<>> /\ i = 0
    /\ pieces = <<>> /\ out = <<>>

SigIdle ==
    /\ sig_pc = "idle" /\ overflow_checks = FALSE /\ sig_words = <<>>
    /\ sig_call = 0 /\ sig_pos = 0 /\ sig_st = SigStart /\ sig_res = <<>>

TabIdle ==
    /\ tab_pc = "idle" /\ it_index = 0 /\ table = <<>> /\ key = 0 /\ code = 0

\* stdin.read_to_string(&mut buf)
Init ==
    /\ pc = "start" /\ buf \in Bufs /\ isomorphic_words = <<>> /\ counters = <<>>
    /\ colour_map = <<>> /\ colour = 0 /\ coloured = <<>> /\ i = 0
    /\ pieces = <<>> /\ out = <<>>
    /\ SigIdle /\ TabIdle

\* buf.split(' ') mapped to holders, and the first collect of colour():
\* a signature per word, or the panic of an overflowing index
Signatures ==
    /\ pc = "start"
    /\ \E checks \in BOOLEAN :
         LET ws == Split(buf)
             rs == [k \in 1..Len(ws) |-> from_isomorphic(ws[k], checks)]
         IN IF \A k \in 1..Len(ws) : rs[k].ok
            THEN /\ isomorphic_words' = [k \in 1..Len(ws) |-> <<ws[k], rs[k].sig>>]
                 /\ pc' = "count"
            ELSE /\ isomorphic_words' = isomorphic_words
                 /\ pc' = "panic"
    /\ UNCHANGED <<buf, counters, colour_map, colour, coloured, i, pieces, out>>
    /\ UNCHANGED <<sig_vars, tab_vars>>

\* one item of the first pass over isomorphic_words
CountStep ==
    /\ pc = "count" /\ i < Len(isomorphic_words)
    /\ counters' = CounterUpdate(counters, isomorphic_words[i + 1][2])
    /\ IF i + 1 = Len(isomorphic_words)
       THEN pc' = "assign" /\ i' = 0
       ELSE pc' = pc /\ i' = i + 1
    /\ UNCHANGED <<buf, isomorphic_words, colour_map, colour, coloured, pieces, out>>
    /\ UNCHANGED <<sig_vars, tab_vars>>

\* one item of the second pass over isomorphic_words
AssignStep ==
    /\ pc = "assign" /\ i < Len(isomorphic_words)
    /\ LET r == AssignBody(colour_map, colour, counters,
                           isomorphic_words[i + 1][1], isomorphic_words[i + 1][2])
       IN /\ colour_map' = r.colour_map
          /\ colour' = r.colour
          /\ coloured' = Append(coloured, r.obj)
    /\ IF i + 1 = Len(isomorphic_words)
       THEN pc' = "render" /\ i' = 0
       ELSE pc' = pc /\ i' = i + 1
    /\ UNCHANGED <<buf, isomorphic_words, counters, pieces, out>>
    /\ UNCHANGED <<sig_vars, tab_vars>>

\* the rest of main: ansify, append RESET, fold, println
Render ==
    /\ pc = "render"
    /\ pieces' = [k \in 1..Len(coloured) |-> RenderPiece(coloured[k], DefaultTable)]
    /\ out' = PrintLn(FoldPieces(pieces'))
    /\ pc' = "done"
    /\ UNCHANGED <<buf, isomorphic_words, counters, colour_map, colour, coloured, i>>
    /\ UNCHANGED <<sig_vars, tab_vars>>

Next == Signatures \/ CountStep \/ AssignStep \/ Render

Spec == Init /\ [][Next]_vars

---------------------------------------------------------------------------
(* Specification of from_isomorphic, one loop iteration per step.          *)

InitSig ==
    /\ sig_pc = "loop" /\ overflow_checks \in BOOLEAN /\ sig_words \in SigPairs
    /\ sig_call = 1 /\ sig_pos = 0 /\ sig_st = SigStart /\ sig_res = <<>>
    /\ MainIdle /\ TabIdle

\* one iteration of for char in word.iter()
SigLoop ==
    /\ sig_pc = "loop" /\ sig_pos < Len(sig_words[sig_call])
    /\ sig_st' = SigLoopBody(sig_st, sig_words[sig_call][sig_pos + 1], overflow_checks)
    /\ sig_pos' = sig_pos + 1
    /\ sig_pc' = IF sig_st'.panicked THEN "panic" ELSE sig_pc
    /\ UNCHANGED <<overflow_checks, sig_words, sig_call, sig_res>>
    /\ UNCHANGED <<main_vars, tab_vars>>

\* the end of the loop: good is computed and the signature returned
SigFinish ==
    /\ sig_pc = "loop" /\ sig_pos = Len(sig_words[sig_call])
    /\ sig_res' = Append(sig_res, SigReturn(sig_st).sig)
    /\ IF sig_call = 1
       THEN sig_call' = 2 /\ sig_pos' = 0 /\ sig_st' = SigStart /\ sig_pc' = sig_pc
       ELSE sig_call' = sig_call /\ sig_pos' = sig_pos /\ sig_st' = sig_st /\ sig_pc' = "done"
    /\ UNCHANGED <<overflow_checks, sig_words>>
    /\ UNCHANGED <<main_vars, tab_vars>>

NextSig == SigLoop \/ SigFinish

SpecSig == InitSig /\ [][NextSig]_vars

---------------------------------------------------------------------------
(* Specification of the default colour table and of reify.                 *)

InitTable ==
    /\ tab_pc = "collect" /\ it_index = 0 /\ table = <<>> /\ key = 0 /\ code = 0
    /\ MainIdle /\ SigIdle

\* DiscordColourIterator::next returning Some, pushed by collect
TableNext ==
    /\ tab_pc = "collect" /\ it_index < TableTotal
    /\ it_index' = it_index + 1
    /\ table' = Append(table, DiscordNextValue(it_index))
    /\ UNCHANGED <<tab_pc, key, code>>
    /\ UNCHANGED <<main_vars, sig_vars>>

\* DiscordColourIterator::next returning None: the table is complete
TableEnd ==
    /\ tab_pc = "collect" /\ it_index >= TableTotal
    /\ tab_pc' = "reify"
    /\ UNCHANGED <<it_index, table, key, code>>
    /\ UNCHANGED <<main_vars, sig_vars>>

\* ColourKey { idx: key }.reify(&table), for the keys in increasing order
ReifyStep ==
    /\ tab_pc = "reify" /\ key < TableTotal + MaxKeyExtra
    /\ code' = Reify(key, table)
    /\ key' = ColourKeyNext(key)
    /\ UNCHANGED <<tab_pc, it_index, table>>
    /\ UNCHANGED <<main_vars, sig_vars>>

NextTable == TableNext \/ TableEnd \/ ReifyStep

SpecTable == InitTable /\ [][NextTable]_vars

---------------------------------------------------------------------------
(* Vocabulary of the properties.                                           *)

\* colour() has returned
Returned == pc \in {"render", "done"}

WordAt(k) == isomorphic_words[k][1]
SigAt(k) == isomorphic_words[k][2]
Positions == 1..Len(isomorphic_words)

Occurrences(e) == Cardinality({k \in Positions : SigAt(k) = e})

\* fewer distinct values than positions
IsGood(e) == Cardinality(Range(e.signature)) < Len(e.signature)

Qualifies(e) == Occurrences(e) >= 2 /\ IsGood(e)

QualSigs == {e \in {SigAt(k) : k \in Positions} : Qualifies(e)}

FirstPos(e) == CHOOSE k \in Positions : SigAt(k) = e /\ \A j \in 1..(k - 1) : SigAt(j) # e

IsColoured(k) == coloured[k].colour # None
KeyAt(k) == coloured[k].colour[1]

\* the escape prefix main printed before word k
PrefixAt(k) ==
    SubSeq(pieces[k], 1, Len(pieces[k]) - Len(coloured[k].value) - Len(RESET))

StripNewlines(s) == SelectSeq(s, LAMBDA c : c # Newline)

\* s without its escape sequences (Esc up to the next "m")
FirstOf(s, c, from) ==
    IF \E p \in from..Len(s) : s[p] = c
    THEN CHOOSE p \in from..Len(s) : s[p] = c /\ \A q \in from..(p - 1) : s[q] # c
    ELSE 0

RECURSIVE StripMarkers(_)
StripMarkers(s) ==
    IF FirstOf(s, Esc, 1) = 0 \/ FirstOf(s, LetterM, FirstOf(s, Esc, 1)) = 0 THEN s
    ELSE SubSeq(s, 1, FirstOf(s, Esc, 1) - 1)
            \o StripMarkers(SubSeq(s, FirstOf(s, LetterM, FirstOf(s, Esc, 1)) + 1, Len(s)))

\* A and B have the same length and the same equalities between positions:
\* exactly when a one-to-one mapping of the characters of A onto those of
\* B carries A onto B position by position
Isomorphic(A, B) ==
    /\ Len(A) = Len(B)
    /\ \A p \in 1..Len(A) : \A q \in 1..Len(A) : (A[p] = A[q]) <=> (B[p] = B[q])

---------------------------------------------------------------------------
(* C1: when colour() has returned, the word at position k has a colour key *)
(* exactly when its signature occurs at two or more positions and has      *)
(* fewer distinct values than its length; every other word has None.       *)
C1_ColouredIffSharedAndGood ==
    Returned =>
        /\ Len(coloured) = Len(isomorphic_words)
        /\ \A k \in Positions : IsColoured(k) <=> Qualifies(SigAt(k))

\* a run with a coloured word, a good word with a unique signature and two
\* words sharing an all-distinct signature
C1_Witness ==
    /\ pc = "done"
    /\ \E k \in Positions : IsColoured(k)
    /\ \E k \in Positions : IsGood(SigAt(k)) /\ Occurrences(SigAt(k)) = 1 /\ ~IsColoured(k)
    /\ \E k \in Positions : ~IsGood(SigAt(k)) /\ Occurrences(SigAt(k)) >= 2 /\ ~IsColoured(k)

(* C3: keys follow the first occurrences of the qualifying signatures: a   *)
(* coloured word's key is the number of qualifying signatures that first   *)
(* occur before its own signature does; equal signatures have equal keys   *)
(* and different qualifying signatures different keys.                     *)
C3_FirstOccurrenceOrder ==
    Returned =>
        \A k \in Positions :
            IsColoured(k) =>
                /\ KeyAt(k) = Cardinality({e \in QualSigs : FirstPos(e) < FirstPos(SigAt(k))})
                /\ \A j \in Positions :
                       IsColoured(j) => ((KeyAt(j) = KeyAt(k)) <=> (SigAt(j) = SigAt(k)))

\* the first word does not qualify, and two classes after it have keys 0, 1
C3_Witness ==
    /\ pc = "done"
    /\ ~IsColoured(1)
    /\ \E j \in Positions : \E k \in Positions :
           /\ j < k /\ IsColoured(j) /\ IsColoured(k)
           /\ KeyAt(j) = 0 /\ KeyAt(k) = 1
           /\ FirstPos(SigAt(j)) < FirstPos(SigAt(k))

(* C4, as stated: any two coloured words with different signatures are     *)
(* printed with different escape prefixes.                                 *)
C4_DistinctPrefixes ==
    pc = "done" =>
        \A j \in Positions : \A k \in Positions :
            (IsColoured(j) /\ IsColoured(k) /\ SigAt(j) # SigAt(k))
                => PrefixAt(j) # PrefixAt(k)

(* C4, amended: any two coloured words with different signatures have      *)
(* different keys, and their escape prefixes are equal exactly when the    *)
(* keys are congruent modulo 8.                                            *)
C4_DistinctKeysPrefixModEight ==
    pc = "done" =>
        \A j \in Positions : \A k \in Positions :
            (IsColoured(j) /\ IsColoured(k) /\ SigAt(j) # SigAt(k))
                => /\ KeyAt(j) # KeyAt(k)
                   /\ (PrefixAt(j) = PrefixAt(k)) <=> (KeyAt(j) % 8 = KeyAt(k) % 8)

\* two classes printed with one prefix, and two printed with different ones
C4_Witness ==
    /\ pc = "done"
    /\ \E j \in Positions : \E k \in Positions :
           /\ IsColoured(j) /\ IsColoured(k) /\ SigAt(j) # SigAt(k)
           /\ PrefixAt(j) = PrefixAt(k)
    /\ \E j \in Positions : \E k \in Positions :
           /\ IsColoured(j) /\ IsColoured(k) /\ SigAt(j) # SigAt(k)
           /\ PrefixAt(j) # PrefixAt(k)

(* C5: a coloured word is printed as its escape prefix, its text and the   *)
(* reset marker, an uncoloured word as its text alone; so without a        *)
(* coloured word the output holds no escape character.                     *)
C5_UncolouredTextOnly ==
    pc = "done" =>
        /\ \A k \in Positions :
               pieces[k] = IF IsColoured(k)
                           THEN DiscordAnsify(Reify(KeyAt(k), DefaultTable))
                                    \o coloured[k].value \o RESET
                           ELSE coloured[k].value
        /\ (\A k \in Positions : ~IsColoured(k)) => Esc \notin Range(out)

(* C6: the words colour() receives are those of the buffer with its line   *)
(* breaks removed, so none contains a line break.                          *)
C6_NewlinesStripped ==
    pc \notin {"start", "idle"} =>
        /\ [k \in Positions |-> WordAt(k)] = Split(StripNewlines(buf))
        /\ \A k \in Positions : Newline \notin Range(WordAt(k))

(* C8: the printed line without its markers, without its one trailing      *)
(* separator, split on spaces, is the list of words of the buffer; and     *)
(* colour() returns one object per word, in place, with the word as value. *)
C8_RoundTrip ==
    (pc = "done" /\ Esc \notin Range(buf)) =>
        LET line == SubSeq(out, 1, Len(out) - 1)
            text == StripMarkers(line)
        IN /\ out[Len(out)] = Newline
           /\ text # <<>> /\ text[Len(text)] = Space
           /\ Split(SubSeq(text, 1, Len(text) - 1)) = Split(buf)
           /\ Len(coloured) = Len(Split(buf))
           /\ \A k \in 1..Len(coloured) : coloured[k].value = Split(buf)[k]

\* a line with coloured and uncoloured words and an empty word
C8_Witness ==
    /\ pc = "done"
    /\ \E k \in Positions : IsColoured(k)
    /\ \E k \in Positions : ~IsColoured(k) /\ WordAt(k) # <<>>
    /\ \E k \in Positions : WordAt(k) = <<>>

(* C9: in and after the second pass the key counter is the number of       *)
(* entries of colour_map, whose keys are exactly 0 .. counter-1, one per   *)
(* signature, all of qualifying signatures; and no step changes or removes *)
(* an entry or lowers the counter.                                         *)
C9_MapInv ==
    /\ colour = Cardinality(DOMAIN colour_map)
    /\ {colour_map[e] : e \in DOMAIN colour_map} = 0..(colour - 1)
    /\ \A e \in DOMAIN colour_map : \A f \in DOMAIN colour_map :
           colour_map[e] = colour_map[f] => e = f
    /\ \A e \in DOMAIN colour_map : Qualifies(e)

C9_MapStep ==
    /\ colour' >= colour
    /\ \A e \in DOMAIN colour_map :
           e \in DOMAIN colour_map' /\ colour_map'[e] = colour_map[e]

C9_KeyAllocator ==
    /\ [](pc \in {"assign", "render", "done"} => C9_MapInv)
    /\ [][C9_MapStep]_vars

\* in the middle of the second pass, two keys given out, an uncoloured word
\* and a word that found its class's key in the map
C9_Witness ==
    /\ pc = "assign" /\ i >= 4 /\ colour = 2
    /\ \E k \in 1..i : ~IsColoured(k)
    /\ \E j \in 1..i : \E k \in 1..i : j < k /\ IsColoured(j) /\ coloured[k] = coloured[j]

---------------------------------------------------------------------------
(* C2: the two signatures are equal exactly when the two words have the    *)
(* same length and a one-to-one mapping of characters carries one onto     *)
(* the other.                                                              *)
C2_SignatureCanonical ==
    sig_pc = "done" =>
        ((sig_res[1].signature = sig_res[2].signature)
            <=> Isomorphic(sig_words[1], sig_words[2]))

(* C7: from_isomorphic never fails, and at every point of its loop the     *)
(* distinct characters seen so far have the distinct integers 0, 1, 2, ... *)
(* so the index counter is the number of distinct characters seen.         *)
C7_TotalNoWrap ==
    /\ sig_pc # "panic"
    /\ sig_pc \in {"loop", "done"} =>
           /\ {sig_st.char_map[c] : c \in DOMAIN sig_st.char_map}
                  = 0..(Cardinality(DOMAIN sig_st.char_map) - 1)
           /\ sig_st.idx = Cardinality(DOMAIN sig_st.char_map)

---------------------------------------------------------------------------
(* C10: on the default table, key k reifies to code 30 + ((k + 1) mod 8),  *)
(* within 30..37, 31 for key 0 and 30 for key 7, the same as key k + 8,    *)
(* also across the wrap of the index at the table's 1000 entries.          *)
C10_ReifyPeriodEight ==
    (tab_pc = "reify" /\ key > 0) =>
        LET k == key - 1
        IN /\ Len(table) = 1000
           /\ code = 30 + ((k + 1) % 8)
           /\ code \in 30..37
           /\ (k = 0 => code = 31) /\ (k = 7 => code = 30)
           /\ Reify(k + 8, table) = code

\* a key past the end of the table has been reified
C10_Witness == tab_pc = "reify" /\ key - 1 = Len(table) /\ code = 31

============================================================================
